---------------------------- MODULE Spec2Model ----------------------------
(***************************************************************************)
(* Model of pkg/auth/mtls_authhandler.go: the mutual-TLS auth handler.     *)
(*                                                                         *)
(*   SpecAuth   - one caller thread that either calls                      *)
(*                verifyPeerCertificate directly or runs authenticate      *)
(*                (whose VerifyPeerCertificate callback calls it).         *)
(*   SpecListen - newMTLSAuthHandler, onStart, onStop, the                 *)
(*                listenForConnections goroutine, its shutdown goroutine   *)
(*                and the handleConnection goroutines, interleaved.        *)
(*   FairListen - SpecListen with the fairness the Go scheduler gives      *)
(*                runnable goroutines.                                     *)
(*   SpecAttempts - authenticate calls or the listener: every place that  *)
(*                fetches the trust bundle.                                *)
(*                                                                         *)
(* A Go pointer is a sequence of length at most one: <<>> is nil, <<v>> a  *)
(* pointer to v. An error is a string, NoErr the nil error.                *)
(***************************************************************************)
EXTENDS Integers, Sequences, FiniteSets, TLC

VARIABLES
    \* ---- the caller thread of SpecAuth
    pc,              \* position of the caller thread
    vin,             \* verifyPeerCertificate: its arguments id, caBundle, len(certChains)
    vleft,           \* chains of certChains the loop has not visited yet
    vexp,            \* verifyPeerCertificate's local expirationTime
    vleaf,           \* the local leaf of the last loop iteration
    vinter,          \* opts.Intermediates of the last loop iteration
    vpassed,         \* NotAfter of the leaf of every chain that passed, in order
    vret,            \* what verifyPeerCertificate returned
    vvalidated,      \* per chain visited: whether ValidateIdentity was called on it
    ar,              \* authenticate: its argument
    clientCert,      \* authenticate: clientCert
    caBundle,        \* authenticate: caBundle
    conn,            \* authenticate: the dialed connection
    expirationTime,  \* authenticate: expirationTime, shared with the callback
    peer,            \* what the peer presented to the VerifyPeerCertificate callback
    cbErr,           \* what the VerifyPeerCertificate callback returned
    aret,            \* what authenticate returned
    calls,           \* authenticate: its calls of the provider and of net.Dial, in order
    \* ---- the goroutines of SpecListen
    alive,           \* the process has not exited through log.Fatal
    handler,         \* what newMTLSAuthHandler returned
    hookPc,          \* position of the lifecycle (onStart, onStop)
    listenCtx,       \* onStart's listenCtx
    ctx,             \* listenForConnections' ctx, derived from listenCtx
    lpc,             \* position of the listenForConnections goroutine
    sock,            \* the listening socket l
    closer,          \* position of the shutdown socket goroutine
    readySent,       \* sends on the ready channel
    lastAccept,      \* what the last l.Accept() returned
    acceptErrs,      \* transient Accept errors so far
    accepted,        \* connections Accept has returned
    hs,              \* the handleConnection goroutine of each connection
    logs             \* log entries written

authVars == <<pc, vin, vleft, vexp, vleaf, vinter, vpassed, vret, vvalidated,
              ar, clientCert, caBundle, conn, expirationTime, peer, cbErr, aret, calls>>
listenVars == <<alive, handler, hookPc, listenCtx, ctx, lpc, sock, closer,
                readySent, lastAccept, acceptErrs, accepted, hs, logs>>
vars == <<authVars, listenVars>>

---------------------------------------------------------------------------
(* Bounds *)

\* certificate expirations (NotAfter) range over 1..MaxTime
MaxTime == 2
\* a certificate chain holds at most MaxChainLen certificates
MaxChainLen == 2
\* verifyPeerCertificate is called with at most MaxChains chains
MaxChains == 2
\* at most MaxConns inbound connections are accepted
MaxConns == 2
\* at most MaxAcceptErrs transient Accept errors happen
MaxAcceptErrs == 2

SeqsUpTo(S, n) == UNION {[1..k -> S] : k \in 0..n}

Min(a, b) == IF a <= b THEN a ELSE b

RECURSIVE MinOf(_)
MinOf(s) == IF Len(s) = 1 THEN s[1] ELSE Min(s[1], MinOf(Tail(s)))

---------------------------------------------------------------------------
(* Certificates, trust bundles, identities *)

NoErr == "nil"

\* numeric identities a peer may be expected to have
Identities == {10, 11}

\* the URI SAN of a leaf: <<i>> names identity i, <<>> is a leaf without one
Sans == {<<i>> : i \in Identities} \cup {<<>>}

\* the trust bundles the Certificate Provider may return, each one root
CAPools == {{"rootA"}, {"rootB"}}

\* who signed a leaf: the root rootA (which only the first bundle trusts) or
\* the intermediate
LeafIssuers == {"rootA", "inter"}

\* CA-flagged certificates a peer may send: an intermediate signed by rootA
CACerts == {[isCA |-> TRUE, subject |-> "inter", issuer |-> "rootA",
             san |-> <<>>, notAfter |-> MaxTime]}

\* end-entity certificates a peer may send
LeafCerts == [isCA : {FALSE}, subject : {"leaf"}, issuer : LeafIssuers,
              san : Sans, notAfter : 1..MaxTime]

Certs == CACerts \cup LeafCerts

\* certificate chains as verifyPeerCertificate receives them
Chains == SeqsUpTo(Certs, MaxChainLen)

\* a raw certificate on the wire: <<c>> is the DER of c, <<>> malformed DER
RawCerts == {<<c>> : c \in Certs} \cup {<<>>}

\* x509.ParseCertificate
ParseCertificate(rawCert) ==
    IF rawCert = <<>> THEN [cert |-> <<>>, err |-> "malformed certificate"]
    ELSE [cert |-> rawCert, err |-> NoErr]

\* x509.Certificate.Verify with opts.Roots and opts.Intermediates: the leaf is
\* signed by a root of the bundle, or by an intermediate that is. Every
\* certificate of the model is inside its validity period.
Verify(leaf, roots, intermediates) ==
    \/ leaf.issuer \in roots
    \/ \E i \in intermediates : i.subject = leaf.issuer /\ i.issuer \in roots

\* certs.CertificateProvider.ValidateIdentity: the leaf's URI SAN against id
ValidateIdentity(id, leaf) ==
    IF leaf.san = <<>> THEN [valid |-> FALSE, err |-> "no URI SAN"]
    ELSE [valid |-> leaf.san[1] = id, err |-> NoErr]

---------------------------------------------------------------------------
(* verifyPeerCertificate *)

\* lines 245-252: split a chain into opts.Intermediates and leaf
RECURSIVE partitionChain(_, _, _)
partitionChain(chain, leaf, intermediates) ==
    IF chain = <<>> THEN [leaf |-> leaf, intermediates |-> intermediates]
    ELSE LET cert == Head(chain)
         IN  IF cert.isCA
             THEN partitionChain(Tail(chain), leaf, intermediates \cup {cert})
             ELSE partitionChain(Tail(chain), <<cert>>, intermediates)

\* checkIdentity without its !valid branch (lines 264-266 dropped)
checkIdentityMutIgnoreInvalid(id, leaf) ==
    IF id = <<>> THEN NoErr
    ELSE IF ValidateIdentity(id[1], leaf).err # NoErr THEN "failed to validate SAN"
    ELSE NoErr

\* lines 260-267: the identity check of one leaf
checkIdentity(id, leaf) ==
    IF id = <<>> THEN NoErr
    ELSE LET r == ValidateIdentity(id[1], leaf)
         IN  IF r.err # NoErr THEN "failed to validate SAN"
             ELSE IF ~r.valid THEN "unable to validate SAN"
             ELSE NoErr

\* the iteration with the identity check moved before the path validation
verifyChainMutIdentityFirst(id, bundle, chain) ==
    LET p == partitionChain(chain, <<>>, {})
        out(e, x, v) == [err |-> e, exp |-> x, leaf |-> p.leaf,
                         intermediates |-> p.intermediates, validated |-> v]
    IN  IF p.leaf = <<>> THEN out("no leaf certificate found", <<>>, FALSE)
        ELSE IF checkIdentity(id, p.leaf[1]) # NoErr
             THEN out(checkIdentity(id, p.leaf[1]), <<>>, id # <<>>)
        ELSE IF ~Verify(p.leaf[1], bundle, p.intermediates)
             THEN out("failed to verify certificate", <<>>, id # <<>>)
        ELSE out(NoErr, <<p.leaf[1].notAfter>>, id # <<>>)

\* lines 240-269: one iteration of the loop over certChains; exp is the value
\* the iteration leaves in expirationTime (or the nil it returns with err),
\* validated whether it reached the call of ValidateIdentity at line 262
verifyChain(id, bundle, chain) ==
    LET p == partitionChain(chain, <<>>, {})
        out(e, x, v) == [err |-> e, exp |-> x, leaf |-> p.leaf,
                         intermediates |-> p.intermediates, validated |-> v]
    IN  IF p.leaf = <<>> THEN out("no leaf certificate found", <<>>, FALSE)
        ELSE IF ~Verify(p.leaf[1], bundle, p.intermediates)
             THEN out("failed to verify certificate", <<>>, FALSE)
        ELSE IF checkIdentity(id, p.leaf[1]) # NoErr
             THEN out(checkIdentity(id, p.leaf[1]), <<>>, id # <<>>)
        ELSE out(NoErr, <<p.leaf[1].notAfter>>, id # <<>>)

\* lines 237-274: the loop, started with expirationTime = exp
RECURSIVE verifyLoop(_, _, _, _)
verifyLoop(exp, id, bundle, certChains) ==
    IF certChains = <<>> THEN [exp |-> exp, err |-> NoErr]
    ELSE LET r == verifyChain(id, bundle, Head(certChains))
         IN  IF r.err # NoErr THEN [exp |-> <<>>, err |-> r.err]
             ELSE verifyLoop(r.exp, id, bundle, Tail(certChains))

\* verifyPeerCertificate without the length test of lines 233-235
verifyPeerCertificateMutNoLenCheck(id, bundle, certChains) ==
    verifyLoop(<<>>, id, bundle, certChains)

\* lines 232-275
verifyPeerCertificate(id, bundle, certChains) ==
    IF Len(certChains) = 0
    THEN [exp |-> <<>>, err |-> "no certificate chains found"]
    ELSE verifyLoop(<<>>, id, bundle, certChains)

\* the certificates of a chain that line 247 does not send to opts.Intermediates
NonCA(chain) == SelectSeq(chain, LAMBDA cert : ~cert.isCA)

---------------------------------------------------------------------------
(* The caller thread: a direct call of verifyPeerCertificate *)

NoRet == [exp |-> <<>>, err |-> NoErr]
NoAuthRet == [resp |-> <<>>, err |-> NoErr]
NoPeer == [presented |-> FALSE, parsed |-> FALSE, leaf |-> <<>>, intermediates |-> {},
          nonca |-> 0, roots |-> <<>>]
NoArgs == [id |-> <<>>, bundle |-> {}, n |-> 0]

\* the thread is between two calls
Idle == pc \in {"idle", "v_ret", "a_ret"}

AuthInit ==
    /\ pc = "idle"
    /\ vin = NoArgs /\ vleft = 0 /\ vexp = <<>> /\ vleaf = <<>> /\ vinter = {}
    /\ vpassed = <<>> /\ vret = NoRet /\ vvalidated = <<>>
    /\ ar = <<>> /\ clientCert = <<>> /\ caBundle = <<>> /\ conn = "none"
    /\ expirationTime = <<>> /\ peer = NoPeer /\ cbErr = NoErr /\ aret = NoAuthRet
    /\ calls = <<>>

\* every local of a finished call is dropped when the next call starts
ResetVerify ==
    /\ vin' = NoArgs /\ vleft' = 0 /\ vexp' = <<>> /\ vleaf' = <<>> /\ vinter' = {}
    /\ vpassed' = <<>> /\ vret' = NoRet /\ vvalidated' = <<>>

ResetAuth ==
    /\ ar' = <<>> /\ clientCert' = <<>> /\ caBundle' = <<>> /\ conn' = "none"
    /\ expirationTime' = <<>> /\ peer' = NoPeer /\ cbErr' = NoErr /\ aret' = NoAuthRet
    /\ calls' = <<>>

\* lines 232-237: the call, with id (nil or not), a trust bundle and n chains
verifyCall ==
    /\ Idle
    /\ \E id \in {<<>>} \cup {<<i>> : i \in Identities}, bundle \in CAPools,
          n \in 0..MaxChains :
         /\ vin' = [id |-> id, bundle |-> bundle, n |-> n]
         /\ vleft' = n
         /\ IF n = 0
            THEN /\ vret' = verifyPeerCertificate(id, bundle, <<>>)
                 /\ pc' = "v_ret"
            ELSE /\ vret' = NoRet
                 /\ pc' = "v_loop"
    /\ vexp' = <<>> /\ vleaf' = <<>> /\ vinter' = {} /\ vpassed' = <<>>
    /\ vvalidated' = <<>>
    /\ ResetAuth
    /\ UNCHANGED listenVars

\* lines 239-272: one iteration, over the next chain of certChains
verifyIterate ==
    /\ pc = "v_loop"
    /\ vleft > 0
    /\ \E chain \in Chains :
         LET r == verifyChain(vin.id, vin.bundle, chain)
         IN  /\ vleaf' = r.leaf
             /\ vinter' = r.intermediates
             /\ vvalidated' = Append(vvalidated, r.validated)
             /\ IF r.err # NoErr
                THEN /\ vret' = [exp |-> <<>>, err |-> r.err]
                     /\ pc' = "v_ret"
                     /\ UNCHANGED <<vexp, vleft, vpassed>>
                ELSE /\ vexp' = r.exp
                     /\ vleft' = vleft - 1
                     /\ vpassed' = Append(vpassed, r.leaf[1].notAfter)
                     /\ UNCHANGED <<vret, pc>>
    /\ UNCHANGED <<vin, ar, clientCert, caBundle, conn, expirationTime, peer, cbErr, aret, calls>>
    /\ UNCHANGED listenVars

\* line 274: the loop is over
verifyReturn ==
    /\ pc = "v_loop"
    /\ vleft = 0
    /\ vret' = [exp |-> vexp, err |-> NoErr]
    /\ pc' = "v_ret"
    /\ UNCHANGED <<vin, vleft, vexp, vleaf, vinter, vpassed, vvalidated>>
    /\ UNCHANGED <<ar, clientCert, caBundle, conn, expirationTime, peer, cbErr, aret, calls>>
    /\ UNCHANGED listenVars

---------------------------------------------------------------------------
(* The caller thread: authenticate *)

LocalIdentities == {5}

\* authRequest values; the remote node is one address
AuthRequests == [localIdentity : LocalIdentities, remoteIdentity : Identities,
                 remoteNodeIP : {"10.0.0.2"}]

\* what a peer can send in its Certificate message: one or more raw certificates
RawChains == SeqsUpTo(RawCerts, MaxChainLen) \ {<<>>}

\* lines 111-118: parse rawCerts into chain; err is the first parse failure
RECURSIVE parseChain(_, _)
parseChain(rawCerts, chain) ==
    IF rawCerts = <<>> THEN [chain |-> chain, err |-> NoErr]
    ELSE LET r == ParseCertificate(Head(rawCerts))
         IN  IF r.err # NoErr
             THEN [chain |-> chain, err |-> "failed to parse certificate"]
             ELSE parseChain(Tail(rawCerts), Append(chain, r.cert[1]))

\* lowerExpiration without the Before comparison of line 121
lowerExpirationMutAlwaysPeer(peerExpirationTime, exp) ==
    IF peerExpirationTime # <<>> THEN peerExpirationTime ELSE exp

\* lines 121-123: the callback keeps the lower of the two expirations
lowerExpiration(peerExpirationTime, exp) ==
    IF peerExpirationTime # <<>> /\ peerExpirationTime[1] < exp[1]
    THEN peerExpirationTime
    ELSE exp

\* the closure returning nil where lines 115 and 124 return the error
VerifyPeerCertificateCallbackMutNilErr(rawCerts, request, bundle, exp) ==
    LET parsed == parseChain(rawCerts, <<>>)
    IN  IF parsed.err # NoErr
        THEN [err |-> NoErr, expirationTime |-> exp]
        ELSE LET r == verifyPeerCertificate(<<request.remoteIdentity>>, bundle,
                                            <<parsed.chain>>)
             IN  [err |-> NoErr, expirationTime |-> lowerExpiration(r.exp, exp)]

\* lines 108-125: the VerifyPeerCertificate closure; exp is the captured
\* expirationTime, the result holds its new value and the returned error
VerifyPeerCertificateCallback(rawCerts, request, bundle, exp) ==
    LET parsed == parseChain(rawCerts, <<>>)
    IN  IF parsed.err # NoErr
        THEN [err |-> parsed.err, expirationTime |-> exp]
        ELSE LET r == verifyPeerCertificate(<<request.remoteIdentity>>, bundle,
                                            <<parsed.chain>>)
             IN  [err |-> r.err, expirationTime |-> lowerExpiration(r.exp, exp)]

\* lines 131-141: what authenticate returns once Handshake has returned hsErr
authReturn(hsErr, exp) ==
    IF hsErr # NoErr THEN [resp |-> <<>>, err |-> "failed to perform TLS handshake"]
    ELSE IF exp = <<>>
         THEN [resp |-> <<>>, err |-> "failed to get expiration time of peer certificate"]
    ELSE [resp |-> <<[expirationTime |-> exp[1]]>>, err |-> NoErr]

\* tls.Conn.Handshake: it fails when the callback returned an error, and may
\* fail for its own reasons (I/O, the server rejecting the client certificate)
HandshakeResults(callbackErr) ==
    IF callbackErr # NoErr THEN {callbackErr}
    ELSE {NoErr, "remote error: tls: bad certificate"}

\* one entry of calls: the callee, whether it returned a nil error, and the
\* trust bundle it returned (a pointer; nil for the other callees)
Call(op, ok, bundle) == [op |-> op, ok |-> ok, bundle |-> bundle]

\* authenticate going on with a nil request
nilCheckMutSkip(req) == NoAuthRet

\* lines 76-78: what authenticate returns at once; NoAuthRet when it goes on
nilCheck(req) ==
    IF req = <<>> THEN [resp |-> <<>>, err |-> "authRequest is nil"] ELSE NoAuthRet

\* the bundle of an earlier fetch kept in place of the one just returned
fetchedBundleMutStale(pool) == CHOOSE b \in CAPools : TRUE

\* lines 84, 184: caBundle, err := m.cert.GetTrustBundle(); the local holds
\* what this call returned
fetchedBundle(pool) == pool

\* a return path on which the deferred Close is missing
deferredCloseMutErrorPath(c, ret) == IF ret.err # NoErr THEN c ELSE "closed"

\* lines 94, 129: defer conn.Close() and defer tlsConn.Close() run on every
\* return after the dial; ret is what authenticate returns
deferredClose(c, ret) == "closed"

\* lines 75-78
authCall ==
    /\ Idle
    /\ \E req \in {<<>>} \cup {<<r>> : r \in AuthRequests} :
         /\ ar' = req
         /\ aret' = nilCheck(req)
         /\ pc' = IF nilCheck(req) # NoAuthRet THEN "a_ret" ELSE "a_cert"
    /\ clientCert' = <<>> /\ caBundle' = <<>> /\ conn' = "none"
    /\ expirationTime' = <<>> /\ peer' = NoPeer /\ cbErr' = NoErr
    /\ calls' = <<>>
    /\ ResetVerify
    /\ UNCHANGED listenVars

\* lines 79-82: m.cert.GetCertificateForIdentity(ar.localIdentity)
authGetCertificate ==
    /\ pc = "a_cert"
    /\ \/ \E t \in 1..MaxTime :
            /\ clientCert' = <<[Leaf |-> [notAfter |-> t]]>>
            /\ calls' = Append(calls, Call("GetCertificateForIdentity", TRUE, <<>>))
            /\ pc' = "a_bundle"
            /\ UNCHANGED aret
       \/ /\ aret' = [resp |-> <<>>, err |-> "failed to get certificate for local identity"]
          /\ calls' = Append(calls, Call("GetCertificateForIdentity", FALSE, <<>>))
          /\ pc' = "a_ret"
          /\ UNCHANGED clientCert
    /\ UNCHANGED <<vin, vleft, vexp, vleaf, vinter, vpassed, vret, vvalidated>>
    /\ UNCHANGED <<ar, caBundle, conn, expirationTime, peer, cbErr>>
    /\ UNCHANGED listenVars

\* authGetTrustBundle going on to the dial where line 86 returns
authGetTrustBundleMutIgnoreErr ==
    /\ pc = "a_bundle"
    /\ \/ \E pool \in CAPools :
            /\ caBundle' = <<fetchedBundle(pool)>>
            /\ calls' = Append(calls, Call("GetTrustBundle", TRUE, <<pool>>))
       \/ /\ calls' = Append(calls, Call("GetTrustBundle", FALSE, <<>>))
          /\ UNCHANGED caBundle
    /\ pc' = "a_dial"
    /\ UNCHANGED <<vin, vleft, vexp, vleaf, vinter, vpassed, vret, vvalidated>>
    /\ UNCHANGED <<ar, clientCert, conn, expirationTime, peer, cbErr, aret>>
    /\ UNCHANGED listenVars

\* lines 84-87: m.cert.GetTrustBundle(); the provider returns the bundle it
\* holds at the time of the call, any of CAPools
authGetTrustBundle ==
    /\ pc = "a_bundle"
    /\ \/ \E pool \in CAPools :
            /\ caBundle' = <<fetchedBundle(pool)>>
            /\ calls' = Append(calls, Call("GetTrustBundle", TRUE, <<pool>>))
            /\ pc' = "a_dial"
            /\ UNCHANGED aret
       \/ /\ aret' = [resp |-> <<>>, err |-> "failed to get CA bundle"]
          /\ calls' = Append(calls, Call("GetTrustBundle", FALSE, <<>>))
          /\ pc' = "a_ret"
          /\ UNCHANGED caBundle
    /\ UNCHANGED <<vin, vleft, vexp, vleaf, vinter, vpassed, vret, vvalidated>>
    /\ UNCHANGED <<ar, clientCert, conn, expirationTime, peer, cbErr>>
    /\ UNCHANGED listenVars

\* lines 90-96: net.Dial, then expirationTime = &clientCert.Leaf.NotAfter
authDial ==
    /\ pc = "a_dial"
    /\ \/ /\ conn' = "open"
          /\ expirationTime' = <<clientCert[1].Leaf.notAfter>>
          /\ calls' = Append(calls, Call("Dial", TRUE, <<>>))
          /\ pc' = "a_handshake"
          /\ UNCHANGED aret
       \/ /\ aret' = [resp |-> <<>>, err |-> "failed to dial"]
          /\ calls' = Append(calls, Call("Dial", FALSE, <<>>))
          /\ pc' = "a_ret"
          /\ UNCHANGED <<conn, expirationTime>>
    /\ UNCHANGED <<vin, vleft, vexp, vleaf, vinter, vpassed, vret, vvalidated>>
    /\ UNCHANGED <<ar, clientCert, caBundle, peer, cbErr>>
    /\ UNCHANGED listenVars

\* lines 131-133, 94, 129: Handshake fails before the peer's certificates
\* reach the callback; the deferred Close calls run
authHandshakeEarlyFailure ==
    /\ pc = "a_handshake"
    /\ aret' = authReturn("EOF", expirationTime)
    /\ conn' = deferredClose(conn, authReturn("EOF", expirationTime))
    /\ pc' = "a_ret"
    /\ UNCHANGED <<vin, vleft, vexp, vleaf, vinter, vpassed, vret, vvalidated>>
    /\ UNCHANGED <<ar, clientCert, caBundle, expirationTime, peer, cbErr, calls>>
    /\ UNCHANGED listenVars

\* lines 108-125: inside Handshake, the peer's Certificate message arrives and
\* the TLS library runs the callback on it
authVerifyPeer ==
    /\ pc = "a_handshake"
    /\ \E rawCerts \in RawChains :
         LET r == VerifyPeerCertificateCallback(rawCerts, ar[1], caBundle[1],
                                                expirationTime)
             parsed == parseChain(rawCerts, <<>>)
             p == partitionChain(parsed.chain, <<>>, {})
         IN  /\ cbErr' = r.err
             /\ expirationTime' = r.expirationTime
             /\ peer' = [presented |-> TRUE, parsed |-> parsed.err = NoErr,
                         leaf |-> p.leaf, intermediates |-> p.intermediates,
                         nonca |-> Len(NonCA(parsed.chain)), roots |-> caBundle]
    /\ pc' = "a_verified"
    /\ UNCHANGED <<vin, vleft, vexp, vleaf, vinter, vpassed, vret, vvalidated>>
    /\ UNCHANGED <<ar, clientCert, caBundle, conn, aret, calls>>
    /\ UNCHANGED listenVars

\* lines 131-141, 94, 129: Handshake returns, authenticate returns and the
\* deferred Close calls run
authHandshakeReturn ==
    /\ pc = "a_verified"
    /\ \E hsErr \in HandshakeResults(cbErr) :
         /\ aret' = authReturn(hsErr, expirationTime)
         /\ conn' = deferredClose(conn, authReturn(hsErr, expirationTime))
    /\ pc' = "a_ret"
    /\ UNCHANGED <<vin, vleft, vexp, vleaf, vinter, vpassed, vret, vvalidated>>
    /\ UNCHANGED <<ar, clientCert, caBundle, expirationTime, peer, cbErr, calls>>
    /\ UNCHANGED listenVars

AuthNext ==
    \/ verifyCall \/ verifyIterate \/ verifyReturn
    \/ authCall \/ authGetCertificate \/ authGetTrustBundle \/ authDial
    \/ authHandshakeEarlyFailure \/ authVerifyPeer \/ authHandshakeReturn

---------------------------------------------------------------------------
(* newMTLSAuthHandler and the lifecycle hooks *)

\* MutualAuthListenerPort values: 0 (the flag's default) and a real port
Ports == {0, 4250}

\* server names a ClientHello may carry, and what the provider knows of them
ServerNames == {"10.id", "11.id", "bogus"}

Conns == 1..MaxConns

\* a connection slot: the state of its handleConnection task, the error the
\* task ended with, whether the connection is open, the bundle the provider
\* returned to the task and the bundle its tls.Config holds as ClientCAs
NoHandshake == [st |-> "none", err |-> NoErr, connOpen |-> FALSE,
                fetched |-> <<>>, bundle |-> <<>>]

Log(level, msg) == logs' = logs \cup {<<level, msg>>}

ListenInit ==
    /\ alive = TRUE
    /\ handler = [installed |-> FALSE, port |-> 0, provider |-> FALSE]
    /\ hookPc = "new"
    /\ listenCtx = "none" /\ ctx = "none"
    /\ lpc = "none" /\ sock = "unbound" /\ closer = "none"
    /\ readySent = 0 /\ lastAccept = "none" /\ acceptErrs = 0 /\ accepted = 0
    /\ hs = [c \in Conns |-> NoHandshake]
    /\ logs = {}

\* a constructor that goes on whatever the port is
disabledByPortMutNever(port) == FALSE

\* line 34: cfg.MutualAuthListenerPort == 0
disabledByPort(port) == port = 0

\* lines 33-53; handler records the configuration the constructor was given
newMTLSAuthHandler ==
    /\ alive /\ hookPc = "new"
    /\ \E port \in Ports, provider \in BOOLEAN :
         IF disabledByPort(port)
         THEN /\ Log("info", "mutual authentication handler is disabled as no port is configured")
              /\ handler' = [installed |-> FALSE, port |-> port, provider |-> provider]
              /\ hookPc' = "nohook"
              /\ UNCHANGED alive
         ELSE IF ~provider
         THEN /\ Log("fatal", "No certificate provider configured, but one is required")
              /\ alive' = FALSE
              /\ UNCHANGED <<handler, hookPc>>
         ELSE /\ handler' = [installed |-> TRUE, port |-> port, provider |-> provider]
              /\ hookPc' = "appended"
              /\ UNCHANGED <<alive, logs>>
    /\ UNCHANGED <<listenCtx, ctx, lpc, sock, closer, readySent, lastAccept, acceptErrs, accepted, hs>>
    /\ UNCHANGED authVars

\* onStart returning without the receive of line 221
onStartMutNoWait ==
    /\ alive /\ hookPc = "appended"
    /\ Log("info", "Starting mTLS auth handler")
    /\ listenCtx' = "live"
    /\ lpc' = "listen"
    /\ hookPc' = "started"
    /\ UNCHANGED <<alive, handler, ctx, sock, closer, readySent, lastAccept, acceptErrs, accepted, hs>>
    /\ UNCHANGED authVars

\* lines 213-221: onStart up to the receive on ready
onStart ==
    /\ alive /\ hookPc = "appended"
    /\ Log("info", "Starting mTLS auth handler")
    /\ listenCtx' = "live"
    /\ lpc' = "listen"
    /\ hookPc' = "waitReady"
    /\ UNCHANGED <<alive, handler, ctx, sock, closer, readySent, lastAccept, acceptErrs, accepted, hs>>
    /\ UNCHANGED authVars

\* lines 165 and 221: the send on the unbuffered ready channel meets the receive
readyRendezvous ==
    /\ alive /\ lpc = "sendReady" /\ hookPc = "waitReady"
    /\ readySent' = readySent + 1
    /\ lpc' = "accept"
    /\ hookPc' = "gotReady"
    /\ UNCHANGED <<alive, handler, listenCtx, ctx, sock, closer, lastAccept, acceptErrs, accepted, hs, logs>>
    /\ UNCHANGED authVars

\* line 222
onStartReturn ==
    /\ alive /\ hookPc = "gotReady"
    /\ hookPc' = "started"
    /\ UNCHANGED <<alive, handler, listenCtx, ctx, lpc, sock, closer, readySent,
                   lastAccept, acceptErrs, accepted, hs, logs>>
    /\ UNCHANGED authVars

\* a cancel function that cancels nothing
cancelMutNoop(c) == c

\* a context after its cancel function ran
cancel(c) == IF c = "none" THEN c ELSE "cancelled"

\* lines 225-229: cancelling listenCtx cancels the ctx derived from it
onStop ==
    /\ alive /\ hookPc = "started"
    /\ Log("info", "Stopping mTLS auth handler")
    /\ listenCtx' = cancel(listenCtx)
    /\ ctx' = IF listenCtx' = "cancelled" THEN cancel(ctx) ELSE ctx
    /\ hookPc' = "stopped"
    /\ UNCHANGED <<alive, handler, lpc, sock, closer, readySent, lastAccept, acceptErrs, accepted, hs>>
    /\ UNCHANGED authVars

---------------------------------------------------------------------------
(* listenForConnections and its shutdown goroutine *)

\* lines 151-164: derive ctx, bind the socket, start the shutdown goroutine;
\* a bind failure is logged with Fatal, which exits the process
listen ==
    /\ alive /\ lpc = "listen"
    /\ ctx' = IF listenCtx = "cancelled" THEN "cancelled" ELSE "live"
    /\ \/ /\ sock' = "open"
          /\ closer' = "waiting"
          /\ Log("info", "Started mTLS listener")
          /\ lpc' = "sendReady"
          /\ UNCHANGED alive
       \/ /\ Log("fatal", "Failed to start mTLS listener")
          /\ alive' = FALSE
          /\ lpc' = "fatal"
          /\ UNCHANGED <<sock, closer>>
    /\ UNCHANGED <<handler, hookPc, listenCtx, readySent, lastAccept, acceptErrs, accepted, hs>>
    /\ UNCHANGED authVars

\* the shutdown goroutine without its l.Close()
shutdownSocketMutNoClose(l) == l

\* line 161: l.Close()
shutdownSocket(l) == "closed"

\* lines 159-162: the shutdown socket goroutine, once ctx is done
shutdown ==
    /\ alive /\ closer = "waiting" /\ ctx = "cancelled"
    /\ sock' = shutdownSocket(sock)
    /\ closer' = "done"
    /\ UNCHANGED <<alive, handler, hookPc, listenCtx, ctx, lpc, readySent, lastAccept,
                   acceptErrs, accepted, hs, logs>>
    /\ UNCHANGED authVars

\* the loop returning on every Accept error
afterAcceptErrorMutReturn(err) == "exited"

\* lines 169-176: where the loop goes after Accept returned err
afterAcceptError(err) == IF err = "closed" THEN "exited" ELSE "accept"

\* the connection slot the next accepted connection gets
NextConn == CHOOSE c \in Conns : hs[c].st = "none" /\ \A d \in 1..(c - 1) : hs[d].st # "none"

\* lines 168, 177: Accept returns a connection, go m.handleConnection(ctx, conn)
acceptConn ==
    /\ alive /\ lpc = "accept" /\ sock = "open"
    /\ \E c \in Conns : hs[c].st = "none"
    /\ hs' = [hs EXCEPT ![NextConn] = [st |-> "start", err |-> NoErr, connOpen |-> TRUE,
                                       fetched |-> <<>>, bundle |-> <<>>]]
    /\ lastAccept' = "conn"
    /\ accepted' = accepted + 1
    /\ UNCHANGED <<alive, handler, hookPc, listenCtx, ctx, lpc, sock, closer, readySent,
                   acceptErrs, logs>>
    /\ UNCHANGED authVars

\* lines 168-175: Accept fails on the open socket
acceptError ==
    /\ alive /\ lpc = "accept" /\ sock = "open"
    /\ acceptErrs < MaxAcceptErrs
    /\ Log("error", "Failed to accept connection")
    /\ acceptErrs' = acceptErrs + 1
    /\ lastAccept' = "error"
    /\ lpc' = afterAcceptError("error")
    /\ ctx' = IF lpc' = "exited" THEN cancel(ctx) ELSE ctx
    /\ UNCHANGED <<alive, handler, hookPc, listenCtx, sock, closer, readySent, hs, accepted>>
    /\ UNCHANGED authVars

\* lines 168-174, 152: Accept on the closed socket returns net.ErrClosed, the
\* loop returns and the deferred cancel runs
acceptClosed ==
    /\ alive /\ lpc = "accept" /\ sock = "closed"
    /\ logs' = logs \cup {<<"error", "Failed to accept connection">>,
                          <<"info", "mTLS listener socket got closed">>}
    /\ lastAccept' = "closed"
    /\ lpc' = afterAcceptError("closed")
    /\ ctx' = IF lpc' = "exited" THEN cancel(ctx) ELSE ctx
    /\ UNCHANGED <<alive, handler, hookPc, listenCtx, sock, closer, readySent, acceptErrs, accepted, hs>>
    /\ UNCHANGED authVars

---------------------------------------------------------------------------
(* handleConnection *)

\* certs.CertificateProvider.SNIToNumericIdentity
SNIToNumericIdentity(serverName) ==
    IF serverName = "10.id" THEN [id |-> 10, err |-> NoErr]
    ELSE IF serverName = "11.id" THEN [id |-> 11, err |-> NoErr]
    ELSE [id |-> 0, err |-> "unknown SNI"]

\* certs.CertificateProvider.GetCertificateForIdentity: identity 10 has a
\* certificate provisioned, identity 11 has none
GetCertificateForIdentity(id) ==
    IF id = 10 THEN [cert |-> <<[Leaf |-> [notAfter |-> MaxTime]]>>, err |-> NoErr]
    ELSE [cert |-> <<>>, err |-> "no certificate for identity"]

\* lines 203-211
GetCertificateForIncomingConnection(serverName) ==
    LET r == SNIToNumericIdentity(serverName)
    IN  IF r.err # NoErr
        THEN [cert |-> <<>>, err |-> "failed to get identity for SNI"]
        ELSE GetCertificateForIdentity(r.id)

\* tls.Conn.HandshakeContext on the server side: it fails when GetCertificate
\* returned an error, and may fail for its own reasons (I/O, a client
\* certificate that ClientCAs does not trust)
ServerHandshakeResults(certErr) ==
    IF certErr # NoErr THEN {certErr}
    ELSE {NoErr, "tls: failed to verify certificate"}

\* a handshake run under context.Background()
handshakeCtxMutBackground == "live"

\* line 198: the context handed to HandshakeContext
handshakeCtx == ctx

\* handleConnection logging its errors with Fatal
handlerErrorExitsMutFatal == TRUE

\* lines 186, 199: handleConnection logs its errors with Error, which does
\* not exit the process
handlerErrorExits == FALSE

\* a handleConnection whose error returns leave the connection open
connOpenAfterHandlerMutLeakOnError(err) == err # NoErr

\* lines 182, 196: defer conn.Close() and defer tlsConn.Close() run whatever
\* handleConnection returns with
connOpenAfterHandler(err) == FALSE

\* lines 182, 196: handleConnection returns with err; the deferred Close calls
\* run and the task's locals are gone
Finish(c, err, msg) ==
    /\ hs' = [hs EXCEPT ![c] = [st |-> "done", err |-> err,
                                connOpen |-> connOpenAfterHandler(err),
                                fetched |-> <<>>, bundle |-> <<>>]]
    /\ IF err # NoErr
       THEN /\ Log("error", msg)
            /\ alive' = (alive /\ ~handlerErrorExits)
       ELSE UNCHANGED <<logs, alive>>

\* lines 184-195: m.cert.GetTrustBundle() and tls.Server; the provider returns
\* the bundle it holds at the time of the call, any of CAPools
handleGetTrustBundle(c) ==
    /\ alive /\ hs[c].st = "start"
    /\ \/ /\ \E pool \in CAPools :
               hs' = [hs EXCEPT ![c].st = "handshake", ![c].fetched = <<pool>>,
                                ![c].bundle = <<fetchedBundle(pool)>>]
          /\ UNCHANGED <<logs, alive>>
       \/ Finish(c, "failed to get CA bundle", "failed to get CA bundle")
    /\ UNCHANGED <<handler, hookPc, listenCtx, ctx, lpc, sock, closer, readySent,
                   lastAccept, acceptErrs, accepted>>
    /\ UNCHANGED authVars

\* lines 198-200: HandshakeContext returns on its own, with or without error
handleHandshake(c) ==
    /\ alive /\ hs[c].st = "handshake"
    /\ \E serverName \in ServerNames :
         \E err \in ServerHandshakeResults(GetCertificateForIncomingConnection(serverName).err) :
            Finish(c, err, "failed to perform TLS handshake")
    /\ UNCHANGED <<handler, hookPc, listenCtx, ctx, lpc, sock, closer, readySent,
                   lastAccept, acceptErrs, accepted>>
    /\ UNCHANGED authVars

\* lines 198-200: HandshakeContext is interrupted because its context is done
handleHandshakeCancelled(c) ==
    /\ alive /\ hs[c].st = "handshake"
    /\ handshakeCtx = "cancelled"
    /\ Finish(c, "context canceled", "failed to perform TLS handshake")
    /\ UNCHANGED <<handler, hookPc, listenCtx, ctx, lpc, sock, closer, readySent,
                   lastAccept, acceptErrs, accepted>>
    /\ UNCHANGED authVars

ListenNext ==
    \/ newMTLSAuthHandler \/ onStart \/ readyRendezvous \/ onStartReturn \/ onStop
    \/ listen \/ shutdown \/ acceptConn \/ acceptError \/ acceptClosed
    \/ \E c \in Conns : handleGetTrustBundle(c)
    \/ \E c \in Conns : handleHandshake(c)
    \/ \E c \in Conns : handleHandshakeCancelled(c)

---------------------------------------------------------------------------
(* Specifications *)

Init == AuthInit /\ ListenInit

SpecAuth == Init /\ [][AuthNext]_vars

SpecListen == Init /\ [][ListenNext]_vars

\* a runnable goroutine is eventually scheduled: the shutdown goroutine once
\* ctx is done, and the accept loop once Accept can return net.ErrClosed
FairListen == SpecListen /\ WF_vars(shutdown) /\ WF_vars(acceptClosed)

\* the two kinds of attempt in one specification, outbound authenticate calls
\* and the listener's inbound connections: a behaviour is either the caller
\* thread's or the listener's; the two sides share no mutable field of
\* mutualAuthHandler
AttemptsNext ==
    \/ /\ hookPc = "new"
       /\ \/ authCall \/ authGetCertificate \/ authGetTrustBundle \/ authDial
          \/ authHandshakeEarlyFailure \/ authVerifyPeer \/ authHandshakeReturn
    \/ /\ pc = "idle"
       /\ ListenNext

SpecAttempts == Init /\ [][AttemptsNext]_vars

---------------------------------------------------------------------------
(* Claims about verifyPeerCertificate and authenticate, under SpecAuth *)

\* the leaf is chain-trusted and the identity predicate returns false for it
IdentityMismatch(id, bundle, leaf, intermediates) ==
    /\ id # <<>> /\ leaf # <<>>
    /\ Verify(leaf[1], bundle, intermediates)
    /\ ValidateIdentity(id[1], leaf[1]) = [valid |-> FALSE, err |-> NoErr]

\* the chain the peer presented parses, has a leaf, leads to a root of the
\* bundle and carries the expected identity
PeerPasses ==
    /\ peer.presented /\ peer.parsed /\ peer.leaf # <<>>
    /\ Verify(peer.leaf[1], caBundle[1], peer.intermediates)
    /\ ValidateIdentity(ar[1].remoteIdentity, peer.leaf[1]) = [valid |-> TRUE, err |-> NoErr]

\* C1: when the chain verifyPeerCertificate fails on has a chain-trusted leaf
\* for which ValidateIdentity returns false, it returns an error and a nil
\* expiration; an authenticate whose peer presents such a chain gets an error
\* from its callback and returns an error and no response.
C1_IdentityMismatchRejected ==
    /\ (pc = "v_ret" /\ IdentityMismatch(vin.id, vin.bundle, vleaf, vinter))
          => (vret.err # NoErr /\ vret.exp = <<>>)
    /\ (/\ pc \in {"a_verified", "a_ret"}
        /\ peer.parsed
        /\ IdentityMismatch(<<ar[1].remoteIdentity>>, caBundle[1], peer.leaf,
                            peer.intermediates))
          => /\ cbErr # NoErr
             /\ pc = "a_ret" => (aret.resp = <<>> /\ aret.err # NoErr)

\* a call with two or more chains returned on a mismatching chain that
\* followed a passing one
C1_Witness ==
    /\ pc = "v_ret" /\ vin.n >= 2 /\ Len(vpassed) >= 1
    /\ IdentityMismatch(vin.id, vin.bundle, vleaf, vinter)

\* C2: whenever the peer's chain does not pass verification the callback
\* returns an error, and authenticate returns an error and a nil response;
\* a response is returned only for a peer whose chain passed.
C2_VerificationFailureFailsAuthenticate ==
    /\ (pc \in {"a_verified", "a_ret"} /\ peer.presented /\ ~PeerPasses) => cbErr # NoErr
    /\ (pc = "a_ret" /\ ~PeerPasses) => (aret.resp = <<>> /\ aret.err # NoErr)
    /\ (pc = "a_ret" /\ aret.resp # <<>>) => PeerPasses

\* authenticate returned for a peer whose leaf does not lead to a root of the bundle
C2_Witness ==
    /\ pc = "a_ret" /\ peer.presented /\ peer.parsed /\ peer.leaf # <<>>
    /\ ~Verify(peer.leaf[1], caBundle[1], peer.intermediates)

\* C3: a successful authenticate returns the minimum of the local leaf's
\* NotAfter and the verified remote leaf's NotAfter.
C3_MinimumExpiration ==
    (pc = "a_ret" /\ aret.resp # <<>>) =>
        /\ peer.leaf # <<>>
        /\ aret.resp[1].expirationTime =
              Min(clientCert[1].Leaf.notAfter, peer.leaf[1].notAfter)
        /\ aret.resp[1].expirationTime <= clientCert[1].Leaf.notAfter
        /\ aret.resp[1].expirationTime <= peer.leaf[1].notAfter

\* a success where the remote leaf expires before the local one
C3_Witness ==
    /\ pc = "a_ret" /\ aret.resp # <<>>
    /\ peer.leaf[1].notAfter < clientCert[1].Leaf.notAfter

\* C4: when every chain of a non-empty list passed, verifyPeerCertificate
\* returns the minimum leaf NotAfter over the chains.
C4_ReturnsMinimumOverChains ==
    (pc = "v_ret" /\ vret.err = NoErr /\ vin.n > 0) => vret.exp = <<MinOf(vpassed)>>

---------------------------------------------------------------------------
(* Claims about the listener, under SpecListen and FairListen *)

\* C5 as stated: in every state after onStop returned the socket is closed
\* and the accept loop has exited.
C5_StoppedMeansClosed ==
    hookPc = "stopped" => (sock = "closed" /\ lpc = "exited")

\* C5 as amended: in every state after onStop returned the listener's context
\* is cancelled and the shutdown goroutine is pending or done; the socket is
\* closed exactly when that goroutine has run, and the accept loop has exited
\* only if the socket is closed.
C5_StoppedMeansCancelled ==
    hookPc = "stopped" =>
        /\ listenCtx = "cancelled" /\ ctx = "cancelled"
        /\ closer \in {"waiting", "done"}
        /\ sock = "closed" <=> closer = "done"
        /\ lpc \in {"accept", "exited"}
        /\ lpc = "exited" => sock = "closed"

\* onStop has returned, the socket is still open and the loop still accepts
C5_Witness ==
    hookPc = "stopped" /\ sock = "open" /\ lpc = "accept"

\* C6: once the listener's context is cancelled, the socket is eventually
\* closed and the accept loop eventually exits; the loop never exits while
\* the socket is open.
C6_StopLiveness ==
    /\ (listenCtx = "cancelled") ~> (sock = "closed" /\ lpc = "exited")
    /\ [](lpc = "exited" => sock = "closed")

\* the loop exited on net.ErrClosed after the cancellation
C6_Witness ==
    listenCtx = "cancelled" /\ sock = "closed" /\ lpc = "exited" /\ lastAccept = "closed"

C8_Readiness ==
    /\ readySent <= 1
    /\ readySent = 1 => sock # "unbound"
    /\ (lpc \in {"accept", "exited"} \/ lastAccept # "none") => readySent = 1
    /\ hookPc \in {"gotReady", "started", "stopped"} => (readySent = 1 /\ sock # "unbound")
    /\ hookPc \in {"gotReady", "started"} => sock = "open"

\* onStart has returned after the one signal
C8_Witness ==
    hookPc = "started" /\ readySent = 1 /\ sock = "open" /\ lpc = "accept"

\* C9: the accept loop has exited only if the last Accept returned
\* net.ErrClosed on the closed socket; after a transient Accept error the loop
\* is still running and can still accept a connection.
C9_OnlyClosedEndsLoop ==
    /\ lpc = "exited" => (lastAccept = "closed" /\ sock = "closed")
    /\ lastAccept = "error" => lpc = "accept"
    /\ (/\ lastAccept = "error" /\ sock = "open"
        /\ \E c \in Conns : hs[c].st = "none")
          => ENABLED acceptConn

\* a connection was accepted and handed to a handler after an Accept error
C9_Witness ==
    /\ acceptErrs >= 1 /\ lastAccept = "conn" /\ lpc = "accept"
    /\ \E c \in Conns : hs[c].st = "start"

\* the step ends task c with an error
HandlerFails(c) == hs[c].st # "done" /\ hs'[c].st = "done" /\ hs'[c].err # NoErr

\* C10: a step in which one handleConnection task fails leaves the process
\* running, the socket and the accept loop as they were, and every other
\* task unchanged.
C10_FailureIsolated ==
    [][\A c \in Conns :
          HandlerFails(c) =>
              /\ alive'
              /\ sock' = sock /\ lpc' = lpc /\ closer' = closer /\ ctx' = ctx
              /\ \A d \in Conns \ {c} : hs'[d] = hs[d]]_vars

\* one task has failed while the socket is open, the loop accepts and another
\* task is in its handshake
C10_Witness ==
    /\ alive /\ sock = "open" /\ lpc = "accept"
    /\ \E c, d \in Conns :
          /\ c # d
          /\ hs[c].st = "done" /\ hs[c].err # NoErr
          /\ hs[d].st = "handshake"

---------------------------------------------------------------------------
(* Claims about authenticate's calls and verifyPeerCertificate's steps,
   under SpecAuth *)

\* authenticate's net.Dial returned a connection
Dialed == \E i \in 1..Len(calls) : calls[i] = Call("Dial", TRUE, <<>>)

\* C11: when authenticate has returned after a successful dial, on the
\* success path and on every error path, the connection is closed; without a
\* successful dial there is no connection.
C11_OutboundCleanup ==
    pc = "a_ret" => /\ Dialed => conn = "closed"
                    /\ ~Dialed => conn = "none"

\* an authenticate that dialed, saw the peer's chain and returned an error
C11_Witness ==
    /\ pc = "a_ret" /\ Dialed /\ peer.presented
    /\ aret.err # NoErr /\ conn = "closed"

\* C12: authenticate(nil) returns the nil-request error and a nil response
\* without calling the provider and without dialing; every later step of
\* authenticate runs on a non-nil request.
C12_NilRequestRejected ==
    /\ (pc = "a_ret" /\ ar = <<>>) =>
          /\ aret = [resp |-> <<>>, err |-> "authRequest is nil"]
          /\ calls = <<>> /\ conn = "none"
          /\ clientCert = <<>> /\ caBundle = <<>>
    /\ pc \in {"a_cert", "a_bundle", "a_dial", "a_handshake", "a_verified"} => ar # <<>>

C12_Witness == pc = "a_ret" /\ ar = <<>> /\ aret.err = "authRequest is nil"

\* C13: verifyPeerCertificate called with zero chains returns the
\* empty-chain-list error and a nil expiration, whatever the bundle and the
\* expected identity (nil or not), and never calls ValidateIdentity.
C13_EmptyChainListRejected ==
    (pc = "v_ret" /\ vin.n = 0) =>
        /\ vret = [exp |-> <<>>, err |-> "no certificate chains found"]
        /\ vvalidated = <<>>

C13_Witness ==
    /\ pc = "v_ret" /\ vin.n = 0 /\ vin.id # <<>>
    /\ vret.err = "no certificate chains found"

\* the callback ran the verifier on the chain the peer presented
PeerChainVerified == peer.presented /\ peer.parsed

\* C15: a chain the verifier accepts holds exactly one certificate that is
\* not CA-flagged, the leaf it path-validated, so that no non-CA certificate
\* is left unverified; a chain without a non-CA certificate fails with the
\* missing-leaf error.
C15_ChainPartition ==
    /\ (PeerChainVerified /\ cbErr = NoErr) => peer.nonca = 1
    /\ (PeerChainVerified /\ peer.nonca = 0) => cbErr = "no leaf certificate found"

\* C16: ValidateIdentity is called only with an expected identity and on a
\* leaf that passed path validation; a chain without leaf and a leaf that
\* fails path validation return their own error with the predicate not
\* called on that chain; the loop returns at the first failing chain, with
\* the chains after it not visited.
C16_VerifierStepOrder ==
    (pc \in {"v_loop", "v_ret"} /\ vvalidated # <<>>) =>
        LET last == vvalidated[Len(vvalidated)]
        IN  /\ last => /\ vin.id # <<>> /\ vleaf # <<>>
                       /\ Verify(vleaf[1], vin.bundle, vinter)
            /\ vleaf = <<>> =>
                  /\ pc = "v_ret" /\ ~last
                  /\ vret = [exp |-> <<>>, err |-> "no leaf certificate found"]
            /\ (vleaf # <<>> /\ ~Verify(vleaf[1], vin.bundle, vinter)) =>
                  /\ pc = "v_ret" /\ ~last
                  /\ vret = [exp |-> <<>>, err |-> "failed to verify certificate"]
            /\ (pc = "v_ret" /\ vret.err # NoErr) =>
                  /\ Len(vvalidated) = Len(vpassed) + 1
                  /\ vleft = vin.n - Len(vpassed)
            /\ (pc = "v_loop" \/ vret.err = NoErr) => Len(vvalidated) = Len(vpassed)

\* the first of several chains fails path validation: the call returns with
\* the other chains not visited and the predicate not called
C16_Witness ==
    /\ pc = "v_ret" /\ vin.n > 1 /\ vin.id # <<>> /\ vpassed = <<>>
    /\ vret.err = "failed to verify certificate"
    /\ vvalidated = <<FALSE>> /\ vleft = vin.n

\* C17: GetTrustBundle is called only after GetCertificateForIdentity
\* succeeded, net.Dial only after both succeeded; a failed call is the last
\* call of authenticate, which then returns an error and a nil response.
C17_OutboundPreconditionOrder ==
    \A i \in 1..Len(calls) :
        /\ calls[i].op = "GetCertificateForIdentity" => i = 1
        /\ calls[i].op = "GetTrustBundle" =>
              /\ i = 2 /\ calls[1] = Call("GetCertificateForIdentity", TRUE, <<>>)
              /\ clientCert # <<>>
        /\ calls[i].op = "Dial" =>
              /\ i = 3 /\ calls[1] = Call("GetCertificateForIdentity", TRUE, <<>>)
              /\ calls[2].op = "GetTrustBundle" /\ calls[2].ok
              /\ clientCert # <<>> /\ caBundle # <<>>
        /\ ~calls[i].ok =>
              /\ i = Len(calls) /\ pc = "a_ret"
              /\ aret.resp = <<>> /\ aret.err # NoErr /\ conn = "none"

\* GetTrustBundle failed after the certificate was obtained
C17_Witness ==
    /\ pc = "a_ret" /\ Len(calls) = 2
    /\ calls[1].ok /\ calls[2] = Call("GetTrustBundle", FALSE, <<>>)
    /\ aret.err = "failed to get CA bundle"

---------------------------------------------------------------------------
(* Claim about both kinds of attempt, under SpecAttempts *)

\* C18: no attempt uses a trust bundle of an earlier attempt: an authenticate
\* that reaches the handshake has called GetTrustBundle in this call, holds
\* what that call returned and verifies the peer against it; a
\* handleConnection task that reaches the handshake has called GetTrustBundle
\* itself and its tls.Config holds what that call returned.
C18_TrustBundleFetchedPerAttempt ==
    /\ pc \in {"a_handshake", "a_verified"} =>
          /\ Len(calls) >= 2 /\ calls[2].op = "GetTrustBundle" /\ calls[2].ok
          /\ caBundle # <<>> /\ caBundle = calls[2].bundle
    /\ peer.presented =>
          /\ Len(calls) >= 2 /\ calls[2].op = "GetTrustBundle"
          /\ peer.roots # <<>> /\ peer.roots = calls[2].bundle
    /\ \A c \in Conns :
          hs[c].st = "handshake" =>
              /\ hs[c].fetched # <<>>
              /\ hs[c].bundle = hs[c].fetched

\* two inbound attempts in flight, between whose fetches the bundle changed
C18_Witness ==
    \E c, d \in Conns :
        /\ hs[c].st = "handshake" /\ hs[d].st = "handshake"
        /\ hs[c].bundle # hs[d].bundle

---------------------------------------------------------------------------
(* Claims about the constructor and the listener, under SpecListen *)

\* C14: when the constructor has run with port 0, it has returned no handler
\* and appended no hook, with or without a certificate provider: no listener
\* goroutine exists, no socket is bound, and the process has not exited.
C14_DisabledByConfig ==
    (hookPc # "new" /\ handler.port = 0) =>
        /\ hookPc = "nohook" /\ ~handler.installed
        /\ lpc = "none" /\ sock = "unbound" /\ closer = "none"
        /\ listenCtx = "none" /\ ctx = "none"
        /\ alive /\ \A e \in logs : e[1] # "fatal"

\* port 0 without a certificate provider
C14_Witness ==
    /\ hookPc = "nohook" /\ handler.port = 0 /\ ~handler.provider
    /\ alive /\ sock = "unbound"

\* C19: every connection Accept returned has exactly one handleConnection
\* task, and a connection whose task has finished is closed.
C19_InboundCleanup ==
    /\ accepted = Cardinality({c \in Conns : hs[c].st # "none"})
    /\ \A c \in Conns :
          /\ hs[c].st = "done" => ~hs[c].connOpen
          /\ hs[c].st = "none" => ~hs[c].connOpen

\* one task finished with an error, another without
C19_Witness ==
    \E c, d \in Conns :
        /\ hs[c].st = "done" /\ hs[c].err # NoErr /\ ~hs[c].connOpen
        /\ hs[d].st = "done" /\ hs[d].err = NoErr /\ ~hs[d].connOpen

\* C20: when the accept loop has ended on the listener-closed error of a
\* deliberate stop, with no other Accept failure before it, the log holds no
\* error-level entry for a failed Accept.
C20_StopLogsNoAcceptError ==
    (hookPc = "stopped" /\ lastAccept = "closed" /\ acceptErrs = 0) =>
        <<"error", "Failed to accept connection">> \notin logs

====
